---- MODULE Spec2Model ----
(***************************************************************************)
(* A model of philo's models/base.py: the entity-attribute-value store     *)
(* (Attribute, QuerySetMapper, Entity.save, TreeEntity.attributes) and the *)
(* tree resolution of TreeManager / TreeModel (get_with_path, has_ancestor,*)
(* get_path).                                                              *)
(*                                                                         *)
(* Strings are sequences of one-character strings: "a/b" is                *)
(* <<"a", "/", "b">>.  Python's None is the value None below.              *)
(***************************************************************************)
EXTENDS Integers, Sequences, FiniteSets, TLC

\* ------------------------------------------------------------------ bounds

\* Number of TreeModel rows in the store.
NumNodes == 3
\* A path handed to get_with_path has at most this many separator-free pieces.
MaxPieces == 4
\* An instance's pending-removal registry is staged up to this many keys.
MaxRemoved == 1
\* The stored objects a value can refer to have the ids 1..MaxTargets.
MaxTargets == 2
\* The longest iterable handed to ManyToManyValue.set_value.
MaxItems == 3
\* The largest depth get_branch_pks is called with.
MaxDepth == 3
\* The number of Entity.save() calls that run at the same time.
NumWriters == 2

\* ------------------------------------------------------- program constants

\* parent = ForeignKey('self', null=True): the null parent, and None in general.
None == 0
\* pathsep='/' of get_with_path and get_path.
Pathsep == "/"
\* u"…", the marker get_path puts before a path cut by a cycle.
Ellipsis == "..."

Nodes == 1..NumNodes
NodesOrNone == Nodes \cup {None}
\* The values of the looked-up field (field='slug') the rows carry.
Slugs == {<<"a">>, <<"b">>}
\* The pieces the checked paths are made of: '' (between two separators, or at
\* either end), and the slugs.
Pieces == {<<>>} \cup Slugs

\* The entities: the nodes are TreeEntity rows, PlainEntity is a row of a model
\* that is an Entity and no TreeModel.
PlainEntity == NumNodes + 1
Entities == Nodes \cup {PlainEntity}
\* Attribute.key values, and the raw values staged for them.
Keys == {"color", "size"}
Payloads == {"red", "blue"}
\* The attribute fields of the entity classes, and each field's key.
Fields == {"color_field", "size_field"}
FieldKey(field) == IF field = "color_field" THEN "color" ELSE "size"

VARIABLES
    parent,     \* TreeModel.parent of every node: a node or None
    slug,       \* TreeModel.slug (the value of `field`) of every node
    rows,       \* the stored Attribute rows: [entity, key, value]
    inst,       \* the entity whose instance is held in memory
    added,      \* inst._added_attribute_registry: field -> raw value
    removed,    \* inst._removed_attribute_registry: a list of keys
    fkv,        \* a ForeignKeyValue: its content_type and its object_id
    m2m,        \* a ManyToManyValue: its pk, its content_type, its child rows
    writers,    \* the concurrent Entity.save() calls, each with its position
    frame,      \* the locals of the tree call that is running step by step
    ret         \* the last call: its name, its arguments and what it gave

vars == <<parent, slug, rows, inst, added, removed, fkv, m2m, writers, frame, ret>>

\* ----------------------------------------------------------------- strings

RECURSIVE JoinFrom(_, _, _)
JoinFrom(segs, sep, i) ==
    IF i > Len(segs) THEN <<>>
    ELSE IF i = Len(segs) THEN segs[i]
    ELSE segs[i] \o <<sep>> \o JoinFrom(segs, sep, i + 1)

\* sep.join(segs)
Join(segs, sep) == JoinFrom(segs, sep, 1)

RECURSIVE SplitFrom(_, _, _, _)
SplitFrom(s, sep, i, cur) ==
    IF i > Len(s) THEN <<cur>>
    ELSE IF s[i] = sep THEN <<cur>> \o SplitFrom(s, sep, i + 1, <<>>)
    ELSE SplitFrom(s, sep, i + 1, Append(cur, s[i]))

\* s.split(sep): the pieces between the separators; [''] for the empty string.
Split(s, sep) == SplitFrom(s, sep, 1, <<>>)

NotBlank(seg) == seg # <<>>

\* while True: segments.remove('') ... until none is left
RemoveBlanks(segments) == SelectSeq(segments, NotBlank)

Reverse(s) == [i \in 1..Len(s) |-> s[Len(s) + 1 - i]]

\* ------------------------------------------------------------------- forest

\* unique_together = (('parent', 'slug'),)
SiblingUnique ==
    \A x, y \in Nodes :
        (x # y /\ parent[x] = parent[y]) => slug[x] # slug[y]

\* The node `hops` parent steps above x; None once the chain has run out.
RECURSIVE Up(_, _)
Up(x, hops) ==
    IF x = None \/ hops = 0 THEN x ELSE Up(parent[x], hops - 1)

\* -------------------------------------------------- TreeManager.get_branch_pks

\* The pks of a queryset as a list; no ordering is asked for, so the rows come
\* in the order the database scans them, order[n] being the place of node n.
RECURSIVE Listed(_, _)
Listed(pks, order) ==
    IF pks = {} THEN <<>>
    ELSE LET first == CHOOSE x \in pks : \A y \in pks : order[x] <= order[y]
         IN  <<first>> \o Listed(pks \ {first}, order)

\* self.filter(parent__pk__in=parent_pks).exclude(pk__in=branch_pks)
ChildPks(parent_pks, branch_pks) ==
    {n \in Nodes : /\ \E i \in 1..Len(parent_pks) : parent[n] = parent_pks[i]
                   /\ ~\E i \in 1..Len(branch_pks) : n = branch_pks[i]}

\* for i in xrange(depth): ...; i counts the levels done.
RECURSIVE get_branch_pks_loop(_, _, _, _, _)
get_branch_pks_loop(branch_pks, parent_pks, i, depth, order) ==
    IF i >= depth THEN branch_pks
    ELSE LET child_pks == Listed(ChildPks(parent_pks, branch_pks), order) IN
         IF child_pks = <<>> THEN branch_pks
         ELSE get_branch_pks_loop(branch_pks \o child_pks, child_pks, i + 1,
                                  depth, order)

\* get_branch_pks going on until a level has no children, whatever the depth.
get_branch_pks_AnyDepth(root, depth, inclusive, order) ==
    get_branch_pks_loop(IF inclusive THEN <<root>> ELSE <<>>, <<root>>, 0,
                        NumNodes + 1, order)

\* TreeManager.get_branch_pks(root, depth, inclusive)
get_branch_pks(root, depth, inclusive, order) ==
    get_branch_pks_loop(IF inclusive THEN <<root>> ELSE <<>>, <<root>>, 0,
                        depth, order)

\* --------------------------------------------------- TreeManager.get_with_path

\* What a call gives: an exception or a returned value.
DoesNotExist == [kind |-> "DoesNotExist"]
MultipleObjectsReturned == [kind |-> "MultipleObjectsReturned"]
NoTermination == [kind |-> "NoTermination"]
ReturnObject(obj) == [kind |-> "object", obj |-> obj]
\* rest is a string, or NoRest for None
NoRest == <<"None">>
ReturnTuple(obj, rest) == [kind |-> "tuple", obj |-> obj, rest |-> rest]

\* make_query_kwargs without the reversal of the segments: the deepest node is
\* matched against the first segment.
make_query_kwargs_Unreversed(segments, root) ==
    [exact |-> segments, top |-> root]

\* The keyword arguments of the query: "<parent__ * i><field>__exact" = revsegs[i+1]
\* for i in 0..n-1, and "<parent__ * (n-1)>parent" = root.
make_query_kwargs(segments, root) ==
    [exact |-> Reverse(segments), top |-> root]

\* The rows a filter(**kwargs) selects.
Filter(kwargs) ==
    LET n == Len(kwargs.exact) IN
    {x \in Nodes :
        /\ \A i \in 1..n :
              /\ Up(x, i - 1) # None
              /\ slug[Up(x, i - 1)] = kwargs.exact[i]
        /\ n >= 1
        /\ parent[Up(x, n - 1)] = kwargs.top}

\* self.get(**kwargs): the one row selected, or an exception.
Get(kwargs) ==
    LET found == Filter(kwargs) IN
    IF found = {} THEN DoesNotExist
    ELSE IF Cardinality(found) > 1 THEN MultipleObjectsReturned
    ELSE ReturnObject(CHOOSE x \in found : TRUE)

build_path(segments, pathsep, trailing_pathsep) ==
    LET path == Join(segments, pathsep) IN
    IF trailing_pathsep /\ segments # <<>> /\ segments[Len(segments)] # <<>>
    THEN path \o <<pathsep>>
    ELSE path

\* x or None, for a string x
OrNone(str) == IF str = <<>> THEN NoRest ELSE str

\* find_obj that takes the first node it finds for the deepest one: the probe
\* halves towards the last success and never looks deeper again.
RECURSIVE find_obj_FirstFound(_, _, _, _, _, _, _, _)
find_obj_FirstFound(segments, depth, deepest_found, root, absolute_result, pathsep, trailing_pathsep, fuel) ==
    IF fuel = 0 THEN NoTermination
    ELSE
    LET got == Get(make_query_kwargs(SubSeq(segments, 1, depth), root)) IN
    IF got.kind = "MultipleObjectsReturned" THEN got
    ELSE IF got.kind = "DoesNotExist" THEN
        IF absolute_result THEN got
        ELSE LET depth2 == (deepest_found + depth) \div 2 IN
             IF deepest_found = depth2 THEN got
             ELSE find_obj_FirstFound(segments, depth2, deepest_found, root,
                                      absolute_result, pathsep, trailing_pathsep,
                                      fuel - 1)
    ELSE
        IF absolute_result THEN got
        ELSE ReturnTuple(got.obj,
                         OrNone(build_path(SubSeq(segments, depth + 1, Len(segments)),
                                           pathsep, trailing_pathsep)))

\* find_obj(segments, depth, deepest_found) with the closure's root,
\* absolute_result, pathsep and trailing_pathsep; fuel counts the calls left
\* before the recursion is declared endless.
RECURSIVE find_obj(_, _, _, _, _, _, _, _)
find_obj(segments, depth, deepest_found, root, absolute_result, pathsep, trailing_pathsep, fuel) ==
    IF fuel = 0 THEN NoTermination
    ELSE
    LET got == Get(make_query_kwargs(SubSeq(segments, 1, depth), root)) IN
    IF got.kind = "MultipleObjectsReturned" THEN got
    ELSE IF got.kind = "DoesNotExist" THEN
        IF absolute_result THEN got
        ELSE LET depth2 == (deepest_found + depth) \div 2 IN
             IF deepest_found = depth2 THEN got
             ELSE find_obj(segments, depth2, deepest_found, root,
                           absolute_result, pathsep, trailing_pathsep, fuel - 1)
    ELSE
        IF absolute_result THEN got
        ELSE LET found2 == depth
                 depth2 == (Len(segments) + depth) \div 2
                 rest == build_path(SubSeq(segments, found2 + 1, Len(segments)),
                                    pathsep, trailing_pathsep)
             IN  IF found2 = depth2 THEN ReturnTuple(got.obj, OrNone(rest))
                 ELSE LET deeper == find_obj(segments, depth2, found2, root,
                                             absolute_result, pathsep,
                                             trailing_pathsep, fuel - 1)
                      IN  IF deeper.kind = "DoesNotExist"
                          THEN ReturnTuple(got.obj, rest)
                          ELSE deeper

\* More calls than any terminating probe of a path of MaxPieces pieces makes.
ProbeFuel == 4 * (MaxPieces + 2)

get_with_path(path, root, absolute_result, pathsep) ==
    LET split == Split(path, pathsep)
        trailing_pathsep == split[Len(split)] = <<>>
        segments == RemoveBlanks(split)
    IN  IF segments = <<>> THEN
            IF root # None THEN ReturnTuple(root, NoRest) ELSE DoesNotExist
        ELSE find_obj(segments, Len(segments), 0, root, absolute_result,
                      pathsep, trailing_pathsep, ProbeFuel)

\* The paths the calls are made with: every string of at most MaxPieces pieces.
PieceLists == UNION {[1..n -> Pieces] : n \in 1..MaxPieces}

\* ------------------------------------------------------- TreeModel.has_ancestor

IsIn(x, list) == \E i \in 1..Len(list) : list[i] = x

\* The while loop of has_ancestor and the comparison after it; `node` is the
\* loop's variable `parent`.
RECURSIVE has_ancestor_loop(_, _, _)
has_ancestor_loop(node, ancestor, parents) ==
    IF node # None THEN
        IF node = ancestor THEN TRUE
        ELSE IF IsIn(node, parents) THEN FALSE
        ELSE has_ancestor_loop(parent[node], ancestor, Append(parents, node))
    ELSE node = ancestor

\* has_ancestor that starts at self.parent whatever inclusive says.
has_ancestor_Exclusive(self, ancestor, inclusive) ==
    has_ancestor_loop(parent[self], ancestor, <<>>)

has_ancestor(self, ancestor, inclusive) ==
    has_ancestor_loop(IF inclusive THEN self ELSE parent[self], ancestor, <<>>)

\* ------------------------------------------------------------ TreeModel.get_path

\* What get_path gives: the exception AncestorDoesNotExist(root), or a string.
AncestorDoesNotExist(root) ==
    [raised |-> TRUE, root |-> root, returned |-> FALSE, str |-> <<>>]
ReturnString(str) ==
    [raised |-> FALSE, root |-> None, returned |-> TRUE, str |-> str]

\* pathsep.join([getattr(parent, field, '?') for parent in parents])
compile_path(parents, pathsep) ==
    Join([i \in 1..Len(parents) |-> slug[parents[i]]], pathsep)

\* The loop of get_path raising on every cycle, a root given or not.
RECURSIVE get_path_loop_AlwaysRaise(_, _, _, _)
get_path_loop_AlwaysRaise(node, parents, root, pathsep) ==
    IF node # None /\ node # root THEN
        IF IsIn(node, parents) THEN AncestorDoesNotExist(root)
        ELSE get_path_loop_AlwaysRaise(parent[node], Append(parents, node), root,
                                       pathsep)
    ELSE IF root # None /\ node = None THEN AncestorDoesNotExist(root)
    ELSE ReturnString(compile_path(Reverse(parents), pathsep))

\* The while loop of get_path and what follows it; `node` is the loop's
\* variable `parent`.
RECURSIVE get_path_loop(_, _, _, _)
get_path_loop(node, parents, root, pathsep) ==
    IF node # None /\ node # root THEN
        IF IsIn(node, parents) THEN
            IF root # None THEN AncestorDoesNotExist(root)
            ELSE ReturnString(<<Ellipsis, pathsep>>
                              \o compile_path(Reverse(Append(parents, node)), pathsep))
        ELSE get_path_loop(parent[node], Append(parents, node), root, pathsep)
    ELSE IF root # None /\ node = None THEN AncestorDoesNotExist(root)
    ELSE ReturnString(compile_path(Reverse(parents), pathsep))

\* get_path whose walk starts at self instead of self.parent.
get_path_FromSelf(self, root, pathsep) ==
    get_path_loop(self, <<>>, root, pathsep)

get_path(self, root, pathsep) ==
    get_path_loop(parent[self], <<self>>, root, pathsep)

\* ------------------------------------------------------------ Attribute rows

\* Attribute.value: no value object (null), or a value object with its payload.
NoValue == [type |-> "None"]
JSONValue(payload) == [type |-> "JSONValue", value |-> payload]

Attribute(entity, key, value) == [entity |-> entity, key |-> key, value |-> value]

\* entity.attribute_set.filter(key__exact=key)
AttributeSet(store, entity, key) ==
    {r \in store : r.entity = entity /\ r.key = key}

\* unique_together = (('key', 'entity_content_type', 'entity_object_id'), ...)
KeyUnique(store) ==
    \A r, q \in store : (r.entity = q.entity /\ r.key = q.key) => r = q

\* ------------------------------------------------------------ QuerySetMapper

KeyError == [kind |-> "KeyError"]
RuntimeError == [kind |-> "RuntimeError"]
ReturnNone == [kind |-> "None"]
ReturnValue(payload) == [kind |-> "value", value |-> payload]

\* QuerySetMapper(queryset, passthrough): the queryset is an entity's
\* attribute_set.all(), named by the entity; passthrough is <<>> for None and
\* <<mapper>> otherwise.
QuerySetMapper(queryset, passthrough) ==
    [queryset |-> queryset, passthrough |-> passthrough]

\* __getitem__ asking the passthrough first and its own queryset only when the
\* passthrough has no such key.
RECURSIVE getitem_PassthroughFirst(_, _)
getitem_PassthroughFirst(mapper, key) ==
    LET found == AttributeSet(rows, mapper.queryset, key)
        below == IF mapper.passthrough # <<>>
                 THEN getitem_PassthroughFirst(mapper.passthrough[1], key)
                 ELSE KeyError
    IN  IF below # KeyError THEN below
        ELSE IF found = {} THEN KeyError
        ELSE IF Cardinality(found) > 1 THEN MultipleObjectsReturned
        ELSE LET value == (CHOOSE r \in found : TRUE).value IN
             IF value # NoValue THEN ReturnValue(value.value) ELSE ReturnNone

RECURSIVE getitem(_, _)
getitem(mapper, key) ==
    LET found == AttributeSet(rows, mapper.queryset, key) IN
    IF found = {} THEN
        IF mapper.passthrough # <<>> THEN getitem(mapper.passthrough[1], key)
        ELSE KeyError
    ELSE IF Cardinality(found) > 1 THEN MultipleObjectsReturned
    ELSE LET value == (CHOOSE r \in found : TRUE).value IN
         IF value # NoValue THEN ReturnValue(value.value) ELSE ReturnNone

\* The querysets whose get(key__exact=key) runs during mapper[key], in order:
\* the mapper's own, then the passthrough's when the own get raised
\* ObjectDoesNotExist and a passthrough is set.
RECURSIVE getitem_queried(_, _)
getitem_queried(mapper, key) ==
    <<mapper.queryset>>
    \o (IF AttributeSet(rows, mapper.queryset, key) = {} /\ mapper.passthrough # <<>>
        THEN getitem_queried(mapper.passthrough[1], key)
        ELSE <<>>)

\* Entity.attributes
Entity_attributes(self) == QuerySetMapper(self, <<>>)

\* TreeEntity.attributes without the override: no passthrough to the parent.
TreeEntity_attributes_NoPassthrough(self, depth) == Entity_attributes(self)

\* TreeEntity.attributes: self.parent.attributes is evaluated on the way, so a
\* parent cycle recurses until the interpreter gives up (RuntimeError); depth
\* counts the frames, and more than NumNodes of them is a cycle.
RECURSIVE TreeEntity_attributes(_, _)
TreeEntity_attributes(self, depth) ==
    IF depth > NumNodes THEN RuntimeError
    ELSE IF parent[self] # None THEN
        LET passthrough == TreeEntity_attributes(parent[self], depth + 1) IN
        IF passthrough = RuntimeError THEN RuntimeError
        ELSE QuerySetMapper(self, <<passthrough>>)
    ELSE Entity_attributes(self)

\* entity.attributes, by the entity's class
attributes(entity) ==
    IF entity \in Nodes THEN TreeEntity_attributes(entity, 0)
    ELSE Entity_attributes(entity)

\* entity.attributes[key]
Lookup(entity, key) ==
    LET mapper == attributes(entity) IN
    IF mapper = RuntimeError THEN RuntimeError ELSE getitem(mapper, key)

\* ------------------------------------------------------------------ Entity.save

\* for key in self._removed_attribute_registry:
\*     self.attribute_set.filter(key__exact=key).delete()
RECURSIVE DeleteRemoved(_, _, _, _)
DeleteRemoved(store, self, registry, i) ==
    IF i > Len(registry) THEN store
    ELSE DeleteRemoved(store \ AttributeSet(store, self, registry[i]),
                       self, registry, i + 1)

\* field.set_attribute_value(attribute, value): the field builds the value
\* object for the raw value and links it to the attribute.
set_attribute_value(attribute, value) ==
    [attribute EXCEPT !.value = JSONValue(value)]

\* The additions loop's body creating a missing Attribute but leaving one it
\* finds as it is.
ApplyAddition_KeepExisting(store, self, field, value) ==
    LET found == AttributeSet(store, self, FieldKey(field)) IN
    IF Cardinality(found) > 1 THEN [exc |-> TRUE, store |-> store]
    ELSE IF found # {} THEN [exc |-> FALSE, store |-> store]
    ELSE [exc |-> FALSE,
          store |-> store \cup {set_attribute_value(
                                    Attribute(self, FieldKey(field), NoValue), value)}]

\* The body of the additions loop for one (field, value): find or create the
\* Attribute of the field's key, set its value, save it.  Gives the new store,
\* or the exception of attribute_set.get when several rows carry the key.
ApplyAddition(store, self, field, value) ==
    LET found == AttributeSet(store, self, FieldKey(field)) IN
    IF Cardinality(found) > 1 THEN [exc |-> TRUE, store |-> store]
    ELSE LET attribute == IF found = {}
                          THEN Attribute(self, FieldKey(field), NoValue)
                          ELSE CHOOSE r \in found : TRUE
         IN  [exc |-> FALSE,
              store |-> (store \ found) \cup {set_attribute_value(attribute, value)}]

\* for field, value in self._added_attribute_registry.items(): ...
RECURSIVE ApplyAdditions(_, _, _, _)
ApplyAdditions(store, self, registry, todo) ==
    IF todo = {} THEN [exc |-> FALSE, store |-> store]
    ELSE LET field == CHOOSE f \in todo : TRUE
             one == ApplyAddition(store, self, field, registry[field])
         IN  IF one.exc THEN one
             ELSE ApplyAdditions(one.store, self, registry, todo \ {field})

NoAdditions == [f \in {} |-> "red"]

\* Entity.save() applying the additions before it commits the removals.
Entity_save_AdditionsFirst(self, persisted) ==
    IF ~persisted
    THEN [raised |-> TRUE, rows |-> rows, added |-> added, removed |-> removed]
    ELSE LET additions == ApplyAdditions(rows, self, added, DOMAIN added)
         IN  IF additions.exc
             THEN [raised |-> TRUE, rows |-> additions.store, added |-> added,
                   removed |-> removed]
             ELSE [raised |-> FALSE,
                   rows |-> DeleteRemoved(additions.store, self, removed, 1),
                   added |-> NoAdditions, removed |-> <<>>]

\* Entity.save() committing the removals before super().save() is tried.
Entity_save_RemovalsBeforePersist(self, persisted) ==
    LET afterRemovals == DeleteRemoved(rows, self, removed, 1) IN
    IF ~persisted
    THEN [raised |-> TRUE, rows |-> afterRemovals, added |-> added, removed |-> <<>>]
    ELSE LET additions == ApplyAdditions(afterRemovals, self, added, DOMAIN added)
         IN  IF additions.exc
             THEN [raised |-> TRUE, rows |-> additions.store, added |-> added,
                   removed |-> <<>>]
             ELSE [raised |-> FALSE, rows |-> additions.store,
                   added |-> NoAdditions, removed |-> <<>>]

\* Entity.save(): what it leaves in the store and in the two registries, and
\* whether it raised.  persisted is whether super().save() went through.
Entity_save(self, persisted) ==
    IF ~persisted
    THEN [raised |-> TRUE, rows |-> rows, added |-> added, removed |-> removed]
    ELSE LET afterRemovals == DeleteRemoved(rows, self, removed, 1)
             additions == ApplyAdditions(afterRemovals, self, added, DOMAIN added)
         IN  IF additions.exc
             THEN [raised |-> TRUE, rows |-> additions.store, added |-> added,
                   removed |-> <<>>]
             ELSE [raised |-> FALSE, rows |-> additions.store,
                   added |-> NoAdditions, removed |-> <<>>]

\* ------------------------------------------------------------- Attribute.save

\* An Attribute as the store holds it, or as a save in progress holds it in
\* memory: pk is None until the row has been inserted.
Row(attribute, pk) ==
    [entity |-> attribute.entity, key |-> attribute.key,
     value |-> attribute.value, pk |-> pk]

\* The pk the store gives to the next inserted row.
NextPk(store) ==
    IF store = {} THEN 1
    ELSE 1 + (CHOOSE p \in {r.pk : r \in store} : \A r \in store : r.pk <= p)

\* The rows other than the saved one that carry its (key, entity).
SameKey(store, attribute) ==
    {r \in store : /\ r.entity = attribute.entity /\ r.key = attribute.key
                   /\ r.pk # attribute.pk}

\* attribute.save() on a store that does not enforce unique_together.
Attribute_save_Unconstrained(store, attribute) ==
    IF attribute.pk = None
    THEN [exc |-> FALSE, store |-> store \cup {Row(attribute, NextPk(store))}]
    ELSE [exc |-> FALSE,
          store |-> {r \in store : r.pk # attribute.pk} \cup {attribute}]

\* attribute.save(): an INSERT for an Attribute without a pk, an UPDATE of the
\* row with its pk otherwise.  The store rejects a row whose (key, entity) is
\* already held by another row with an IntegrityError (unique_together).
Attribute_save(store, attribute) ==
    IF SameKey(store, attribute) # {} THEN [exc |-> TRUE, store |-> store]
    ELSE IF attribute.pk = None
    THEN [exc |-> FALSE, store |-> store \cup {Row(attribute, NextPk(store))}]
    ELSE [exc |-> FALSE,
          store |-> {r \in store : r.pk # attribute.pk} \cup {attribute}]

\* ----------------------------------------------------------- ForeignKeyValue

\* The ContentType rows of the registered value models.
ContentTypes == {1, 2}
ContentTypesOrNone == ContentTypes \cup {None}
\* The ids of the stored objects of each of these models.
TargetIds == 1..MaxTargets
TargetIdsOrNone == TargetIds \cup {None}

\* A stored object a value can refer to: its model's ContentType and its pk.
Object(content_type, pk) == [content_type |-> content_type, pk |-> pk]
Objects == {Object(c, i) : c \in ContentTypes, i \in TargetIds}
\* None where an object is expected.
NoObject == Object(None, None)

ForeignKeyValue(content_type, object_id) ==
    [content_type |-> content_type, object_id |-> object_id]

\* value = generic.GenericForeignKey(): assigning an object stores its
\* ContentType and its pk, assigning None stores two nulls.
GenericForeignKey_set(self, value) ==
    ForeignKeyValue(value.content_type, value.pk)

\* cleaned_data.get('content_type', None)
GetContentType(cleaned_data) ==
    IF "content_type" \in DOMAIN cleaned_data THEN cleaned_data.content_type
    ELSE None

\* ForeignKeyValue.apply_data keeping the content_type it has when the input
\* names none.
ForeignKeyValue_apply_data_KeepType(self, cleaned_data) ==
    IF "value" \in DOMAIN cleaned_data /\ cleaned_data.value # NoObject
    THEN GenericForeignKey_set(self, cleaned_data.value)
    ELSE ForeignKeyValue(IF "content_type" \in DOMAIN cleaned_data
                         THEN cleaned_data.content_type ELSE self.content_type,
                         None)

\* ForeignKeyValue.apply_data(cleaned_data)
ForeignKeyValue_apply_data(self, cleaned_data) ==
    IF "value" \in DOMAIN cleaned_data /\ cleaned_data.value # NoObject
    THEN GenericForeignKey_set(self, cleaned_data.value)
    ELSE ForeignKeyValue(GetContentType(cleaned_data), None)

\* The dictionaries a form hands to apply_data: each of the two keys is
\* present or not.
CleanedData ==
    {[k \in {} |-> None]}
    \cup {[value |-> v] : v \in Objects \cup {NoObject}}
    \cup {[content_type |-> c] : c \in ContentTypesOrNone}
    \cup {[value |-> v, content_type |-> c] :
            v \in Objects \cup {NoObject}, c \in ContentTypesOrNone}

\* ----------------------------------------------------------- ManyToManyValue

\* V.values holds ForeignKeyValue rows that differ in their pk only: the
\* number of child rows of every object_id.
NoValues == [i \in TargetIds |-> 0]

ManyToManyValue(pk, content_type, values) ==
    [pk |-> pk, content_type |-> content_type, values |-> values]

\* What set_value is handed: a list of ids in the order of iteration, or a
\* QuerySet of stored objects.
ListOf(items) == [queryset |-> FALSE, items |-> items]
QuerySetOf(pks) == [queryset |-> TRUE, pks |-> pks]

\* The ids of a set in ascending order.
RECURSIVE Ascending(_)
Ascending(S) ==
    IF S = {} THEN <<>>
    ELSE LET least == CHOOSE x \in S : \A y \in S : x <= y
         IN  <<least>> \o Ascending(S \ {least})

\* if not value: value = []
OrEmptyList(value) ==
    IF value.queryset /\ value.pks = {} THEN ListOf(<<>>) ELSE value

\* if isinstance(value, models.query.QuerySet):
\*     value = value.values_list('id', flat=True)
values_list_id(value) ==
    IF value.queryset THEN Ascending(value.pks) ELSE value.items

\* ManyToManyValue.get_object_id_list: the object_ids of the child rows (the
\* ids that have a child row; `in` is all that is asked of the result).
get_object_id_list(self) == {i \in TargetIds : self.values[i] > 0}

\* What ManyToManyValue.get_value gives for content_type None.
ValueNone == [kind |-> "None"]
\* ManyToManyValue.get_value: the stored objects of the content type's model
\* whose id is among the child rows' object_ids.
get_value(self) ==
    IF self.content_type = None THEN ValueNone
    ELSE [kind |-> "queryset",
          objects |-> {o \in Objects : /\ o.content_type = self.content_type
                                       /\ o.pk \in get_object_id_list(self)}]

\* self.values.filter(~models.Q(object_id__in=value)).delete()
DeleteNotIn(values, ids) ==
    [i \in TargetIds |-> IF i \in ids THEN values[i] ELSE 0]

\* for v in value: if v in current: continue;
\*     self.values.create(content_type=self.content_type, object_id=v)
\* current was read once, before the loop.
RECURSIVE CreateMissing(_, _, _, _)
CreateMissing(values, ids, current, i) ==
    IF i > Len(ids) THEN values
    ELSE IF ids[i] \in current THEN CreateMissing(values, ids, current, i + 1)
    ELSE CreateMissing([values EXCEPT ![ids[i]] = @ + 1], ids, current, i + 1)

\* set_value deleting no child row.
set_value_KeepAll(self, value) ==
    LET ids == values_list_id(OrEmptyList(value))
        current == get_object_id_list(self)
    IN  ManyToManyValue(IF self.pk = None THEN 1 ELSE self.pk, self.content_type,
                        CreateMissing(self.values, ids, current, 1))

\* ManyToManyValue.set_value(value): V is saved when it has no pk yet.
set_value(self, value) ==
    LET ids == values_list_id(OrEmptyList(value))
        kept == DeleteNotIn(self.values, {ids[i] : i \in 1..Len(ids)})
        current == get_object_id_list(ManyToManyValue(self.pk, self.content_type, kept))
    IN  ManyToManyValue(IF self.pk = None THEN 1 ELSE self.pk, self.content_type,
                        CreateMissing(kept, ids, current, 1))

\* No value object is in play.
InitNoValues ==
    /\ fkv = ForeignKeyValue(None, None)
    /\ m2m = ManyToManyValue(None, None, NoValues)

\* ------------------------------------------------------------ specifications

NoCall == [op |-> "none"]

\* No save is in progress and no tree call is running step by step.
InitNoSteps ==
    /\ writers = <<>>
    /\ frame = NoCall

\* The field value of each stored node.
SlugOf(n) == IF n % 2 = 1 THEN <<"a">> ELSE <<"b">>

\* Any stored forest: the parents are the user's to set (nothing stops a parent
\* cycle).  Nodes 1 and 3 carry the same field value and may be siblings: the
\* (parent, slug) uniqueness does not bind rows whose parent is null, nor a
\* `field` other than slug.
InitForest ==
    /\ parent \in [Nodes -> NodesOrNone]
    /\ slug = [n \in Nodes |-> SlugOf(n)]

\* The caller takes the result; the next call can be made.
Forget ==
    /\ ret # NoCall
    /\ ret' = NoCall
    /\ UNCHANGED <<parent, slug, rows, inst, added, removed>>
    /\ UNCHANGED <<fkv, m2m, writers, frame>>

\* No instance is held in memory and no Attribute row is stored.
InitNoAttributes ==
    /\ rows = {}
    /\ inst = None
    /\ added = NoAdditions
    /\ removed = <<>>

InitPath ==
    /\ InitForest
    /\ InitNoAttributes
    /\ InitNoValues
    /\ InitNoSteps
    /\ ret = NoCall

\* The roots the calls are made with: None, a node with the one field value
\* and a node with the other (Init draws every forest, and which node of a
\* field value is the root does not matter).
Roots == {None} \cup {n \in Nodes : n <= Cardinality(Slugs)}

\* pieces is the list the path string is made from (not seen by the code).
CallGetWithPath ==
    /\ ret = NoCall
    /\ \E pieces \in PieceLists, root \in Roots, absolute_result \in BOOLEAN :
        ret' = [op |-> "get_with_path", pieces |-> pieces,
                path |-> Join(pieces, Pathsep), root |-> root,
                absolute_result |-> absolute_result,
                result |-> get_with_path(Join(pieces, Pathsep), root,
                                         absolute_result, Pathsep)]
    /\ UNCHANGED <<parent, slug, rows, inst, added, removed>>
    /\ UNCHANGED <<fkv, m2m, writers, frame>>

NextPath == CallGetWithPath \/ Forget

SpecPath == InitPath /\ [][NextPath]_vars

InitWalk ==
    /\ InitForest
    /\ InitNoAttributes
    /\ InitNoValues
    /\ InitNoSteps
    /\ ret = NoCall

CallHasAncestor ==
    /\ ret = NoCall
    /\ \E self \in Nodes, ancestor \in NodesOrNone, inclusive \in BOOLEAN :
        ret' = [op |-> "has_ancestor", self |-> self, ancestor |-> ancestor,
                inclusive |-> inclusive,
                result |-> has_ancestor(self, ancestor, inclusive)]
    /\ UNCHANGED <<parent, slug, rows, inst, added, removed>>
    /\ UNCHANGED <<fkv, m2m, writers, frame>>

CallGetPath ==
    /\ ret = NoCall
    /\ \E self \in Nodes, root \in NodesOrNone :
        ret' = [op |-> "get_path", self |-> self, root |-> root,
                result |-> get_path(self, root, Pathsep)]
    /\ UNCHANGED <<parent, slug, rows, inst, added, removed>>
    /\ UNCHANGED <<fkv, m2m, writers, frame>>

NextWalk == CallHasAncestor \/ CallGetPath \/ Forget

SpecWalk == InitWalk /\ [][NextWalk]_vars

\* The payload of the Attribute rows node n is stored with.
PayloadOf(n) == IF n % 2 = 1 THEN "red" ELSE "blue"

\* Any forest, and any Attribute rows of its nodes: at most one per node and key.
InitLookup ==
    /\ InitForest
    /\ \E cells \in SUBSET (Nodes \X Keys) :
          rows = {Attribute(c[1], c[2], JSONValue(PayloadOf(c[1]))) : c \in cells}
    /\ inst = None
    /\ added = NoAdditions
    /\ removed = <<>>
    /\ InitNoValues
    /\ InitNoSteps
    /\ ret = NoCall

CallGetItem ==
    /\ ret = NoCall
    /\ \E entity \in Nodes, key \in Keys :
        ret' = [op |-> "getitem", entity |-> entity, key |-> key,
                result |-> Lookup(entity, key)]
    /\ UNCHANGED <<parent, slug, rows, inst, added, removed>>
    /\ UNCHANGED <<fkv, m2m, writers, frame>>

NextLookup == CallGetItem \/ Forget

SpecLookup == InitLookup /\ [][NextLookup]_vars

\* The chain 1 <- 2 <- ... <- NumNodes: node 1 has no parent.
ChainForest == [n \in Nodes |-> n - 1]

CellValues == {JSONValue(p) : p \in Payloads}
\* No Attribute row for the entity and key.
NoRow == [type |-> "no row"]

\* The nodes form a chain, so that the mappers of nodes 2.. have a passthrough
\* and those of node 1 and of the plain Entity have none; every entity has, for
\* every key, no Attribute row, a row with a null value or a row with a value.
InitMapper ==
    /\ parent = ChainForest
    /\ slug = [n \in Nodes |-> SlugOf(n)]
    /\ \E cell \in [Entities \X Keys -> {NoRow, NoValue, JSONValue("red")}] :
          rows = {Attribute(c[1], c[2],
                            IF cell[c] = NoValue THEN NoValue
                            ELSE JSONValue(PayloadOf(c[1]))) :
                    c \in {x \in Entities \X Keys : cell[x] # NoRow}}
    /\ inst = None
    /\ added = NoAdditions
    /\ removed = <<>>
    /\ InitNoValues
    /\ InitNoSteps
    /\ ret = NoCall

\* entity.attributes[key]; queried lists the querysets the lookup went to.
CallMapperGetItem ==
    /\ ret = NoCall
    /\ \E entity \in Entities, key \in Keys :
        ret' = [op |-> "mapper_getitem", entity |-> entity, key |-> key,
                queried |-> getitem_queried(attributes(entity), key),
                result |-> getitem(attributes(entity), key)]
    /\ UNCHANGED <<parent, slug, rows, inst, added, removed>>
    /\ UNCHANGED <<fkv, m2m, writers, frame>>

NextMapper == CallMapperGetItem \/ Forget

SpecMapper == InitMapper /\ [][NextMapper]_vars

\* The iterables set_value is called with: lists of up to MaxItems ids, an id
\* may repeat, and QuerySets of stored objects.
IdLists == UNION {[1..n -> TargetIds] : n \in 0..MaxItems}
SetValueInputs ==
    {ListOf(items) : items \in IdLists} \cup {QuerySetOf(pks) : pks \in SUBSET TargetIds}

\* The ids an iterable yields.
IdsOf(value) ==
    LET ids == values_list_id(value) IN {ids[i] : i \in 1..Len(ids)}

\* A new ManyToManyValue, with or without a content type, not saved yet.
InitManyToMany ==
    /\ parent = ChainForest
    /\ slug = [n \in Nodes |-> SlugOf(n)]
    /\ InitNoAttributes
    /\ fkv = ForeignKeyValue(None, None)
    /\ \E content_type \in ContentTypesOrNone :
          m2m = ManyToManyValue(None, content_type, NoValues)
    /\ InitNoSteps
    /\ ret = NoCall

\* V.value = value.  The call before it, if there was one, is kept as
\* previous: <<>> or the ids it was given.
SetValue ==
    /\ \E value \in SetValueInputs :
        /\ m2m' = set_value(m2m, value)
        /\ ret' = [op |-> "set_value", value |-> value, before |-> m2m,
                   previous |-> IF ret.op = "set_value"
                                THEN <<IdsOf(ret.value)>> ELSE <<>>]
    /\ UNCHANGED <<parent, slug, rows, inst, added, removed>>
    /\ UNCHANGED <<fkv, writers, frame>>

NextManyToMany == SetValue

SpecManyToMany == InitManyToMany /\ [][NextManyToMany]_vars

\* A stored ForeignKeyValue with any content_type and any object_id.
InitForeignKey ==
    /\ parent = ChainForest
    /\ slug = [n \in Nodes |-> SlugOf(n)]
    /\ InitNoAttributes
    /\ \E content_type \in ContentTypesOrNone, object_id \in TargetIdsOrNone :
          fkv = ForeignKeyValue(content_type, object_id)
    /\ m2m = ManyToManyValue(None, None, NoValues)
    /\ InitNoSteps
    /\ ret = NoCall

\* fkv.apply_data(cleaned_data)
ApplyData ==
    /\ \E cleaned_data \in CleanedData :
        /\ fkv' = ForeignKeyValue_apply_data(fkv, cleaned_data)
        /\ ret' = [op |-> "apply_data", cleaned_data |-> cleaned_data,
                   before |-> fkv]
    /\ UNCHANGED <<parent, slug, rows, inst, added, removed>>
    /\ UNCHANGED <<m2m, writers, frame>>

NextForeignKey == ApplyData

SpecForeignKey == InitForeignKey /\ [][NextForeignKey]_vars

\* The concurrent saves: each works on its own in-memory instance of the same
\* entity, with one addition staged.
Writers == 1..NumWriters

\* No Attribute is held by a save yet.
NoAttribute == [entity |-> None, key |-> "", value |-> NoValue, pk |-> None]

\* The entity is stored, with or without a row for each key; every writer has
\* staged a value for one field.
InitRace ==
    /\ parent = ChainForest
    /\ slug = [n \in Nodes |-> SlugOf(n)]
    /\ inst \in Entities
    /\ \E own \in [Keys -> {NoRow, NoValue, JSONValue("red")}] :
          rows = {Row(Attribute(inst, k, own[k]), IF k = "color" THEN 1 ELSE 2) :
                    k \in {x \in Keys : own[x] # NoRow}}
    /\ added = NoAdditions
    /\ removed = <<>>
    /\ InitNoValues
    /\ writers \in [Writers -> {[pc |-> "start", field |-> f, value |-> v,
                                 found |-> FALSE, attribute |-> NoAttribute] :
                                    f \in Fields, v \in Payloads}]
    /\ frame = NoCall
    /\ ret = NoCall

\* super(Entity, self).save(); nothing is staged for removal.
WriterPersist(w) ==
    /\ writers[w].pc = "start"
    /\ writers' = [writers EXCEPT ![w].pc = "get"]
    /\ UNCHANGED <<parent, slug, rows, inst, added, removed>>
    /\ UNCHANGED <<fkv, m2m, frame, ret>>

\* attribute = self.attribute_set.get(key__exact=field.key), or a new
\* Attribute when there is none.
WriterGet(w) ==
    /\ writers[w].pc = "get"
    /\ LET found == AttributeSet(rows, inst, FieldKey(writers[w].field)) IN
        writers' = [writers EXCEPT ![w] =
            IF Cardinality(found) > 1 THEN [@ EXCEPT !.pc = "MultipleObjectsReturned"]
            ELSE IF found = {}
            THEN [@ EXCEPT !.pc = "save", !.found = FALSE,
                           !.attribute = Row(Attribute(inst, FieldKey(writers[w].field), NoValue),
                                             None)]
            ELSE [@ EXCEPT !.pc = "save", !.found = TRUE,
                           !.attribute = CHOOSE r \in found : TRUE]]
    /\ UNCHANGED <<parent, slug, rows, inst, added, removed>>
    /\ UNCHANGED <<fkv, m2m, frame, ret>>

\* field.set_attribute_value(attribute, value); attribute.save()
WriterSaveAttribute(w) ==
    /\ writers[w].pc = "save"
    /\ LET attribute == set_attribute_value(writers[w].attribute, writers[w].value)
           saved == Attribute_save(rows, attribute)
       IN  /\ rows' = saved.store
           /\ writers' = [writers EXCEPT ![w].pc = IF saved.exc THEN "IntegrityError"
                                                    ELSE "clear",
                                         ![w].attribute = attribute]
    /\ UNCHANGED <<parent, slug, inst, added, removed>>
    /\ UNCHANGED <<fkv, m2m, frame, ret>>

\* self._added_attribute_registry.clear()
WriterClear(w) ==
    /\ writers[w].pc = "clear"
    /\ writers' = [writers EXCEPT ![w].pc = "done"]
    /\ UNCHANGED <<parent, slug, rows, inst, added, removed>>
    /\ UNCHANGED <<fkv, m2m, frame, ret>>

NextRace ==
    \E w \in Writers :
        \/ WriterPersist(w)
        \/ WriterGet(w)
        \/ WriterSaveAttribute(w)
        \/ WriterClear(w)

SpecRace == InitRace /\ [][NextRace]_vars

\* ------------------------------------------------- the tree calls step by step

\* A call that has ended: what it was called with and what it gave.
Returned(f, result) ==
    [op |-> f.op, call |-> f.call, running |-> FALSE, result |-> result]

\* has_ancestor up to its while loop.
has_ancestor_begin(self, ancestor, inclusive) ==
    [op |-> "has_ancestor",
     call |-> [self |-> self, ancestor |-> ancestor, inclusive |-> inclusive],
     running |-> TRUE,
     cursor |-> IF inclusive THEN self ELSE parent[self],
     parents |-> <<>>]

\* One turn of has_ancestor's loop that forgets to note the node it passed.
has_ancestor_step_NoAppend(f) ==
    IF f.cursor # None THEN
        IF f.cursor = f.call.ancestor THEN Returned(f, TRUE)
        ELSE IF IsIn(f.cursor, f.parents) THEN Returned(f, FALSE)
        ELSE [f EXCEPT !.cursor = parent[f.cursor]]
    ELSE Returned(f, f.cursor = f.call.ancestor)

\* One turn of has_ancestor's while loop, or what follows the loop; cursor is
\* the loop's variable `parent`.
has_ancestor_step(f) ==
    IF f.cursor # None THEN
        IF f.cursor = f.call.ancestor THEN Returned(f, TRUE)
        ELSE IF IsIn(f.cursor, f.parents) THEN Returned(f, FALSE)
        ELSE [f EXCEPT !.parents = Append(@, f.cursor), !.cursor = parent[f.cursor]]
    ELSE Returned(f, f.cursor = f.call.ancestor)

\* get_path up to its while loop.
get_path_begin(self, root) ==
    [op |-> "get_path", call |-> [self |-> self, root |-> root],
     running |-> TRUE, cursor |-> parent[self], parents |-> <<self>>]

\* One turn of get_path's while loop, or what follows the loop.
get_path_step(f) ==
    IF f.cursor # None /\ f.cursor # f.call.root THEN
        IF IsIn(f.cursor, f.parents) THEN
            IF f.call.root # None THEN Returned(f, AncestorDoesNotExist(f.call.root))
            ELSE Returned(f, ReturnString(
                     <<Ellipsis, Pathsep>>
                     \o compile_path(Reverse(Append(f.parents, f.cursor)), Pathsep)))
        ELSE [f EXCEPT !.parents = Append(@, f.cursor), !.cursor = parent[f.cursor]]
    ELSE IF f.call.root # None /\ f.cursor = None
         THEN Returned(f, AncestorDoesNotExist(f.call.root))
         ELSE Returned(f, ReturnString(compile_path(Reverse(f.parents), Pathsep)))

\* get_with_path up to the first call of find_obj: the path is split and
\* cleaned, and a path without segments is answered at once.  handler is the
\* innermost `except self.model.DoesNotExist` of line 379 on the call stack,
\* with what it returns; probed lists the (depth, deepest_found) of the calls
\* of find_obj made so far.
get_with_path_begin(path, root, absolute_result) ==
    LET split == Split(path, Pathsep)
        trailing_pathsep == split[Len(split)] = <<>>
        segments == RemoveBlanks(split)
        call == [segments |-> segments, trailing_pathsep |-> trailing_pathsep,
                 root |-> root, absolute_result |-> absolute_result]
    IN  IF segments = <<>>
        THEN [op |-> "get_with_path", call |-> call, running |-> FALSE,
              result |-> IF root # None THEN ReturnTuple(root, NoRest)
                         ELSE DoesNotExist]
        ELSE [op |-> "get_with_path", call |-> call, running |-> TRUE,
              depth |-> Len(segments), deepest_found |-> 0,
              handler |-> <<>>, probed |-> <<>>]

\* self.model.DoesNotExist leaves find_obj: the innermost handler returns its
\* object, or the exception leaves get_with_path.
find_obj_raise(f) ==
    IF f.handler = <<>> THEN Returned(f, DoesNotExist)
    ELSE Returned(f, f.handler[1])

\* One call of find_obj(segments, depth, deepest_found), up to its return or
\* to the call of find_obj it makes.
find_obj_step(f) ==
    LET segments == f.call.segments
        got == Get(make_query_kwargs(SubSeq(segments, 1, f.depth), f.call.root))
        g == [f EXCEPT !.probed = Append(@, <<f.depth, f.deepest_found>>)]
    IN
    IF got.kind = "MultipleObjectsReturned" THEN Returned(g, got)
    ELSE IF got.kind = "DoesNotExist" THEN
        IF f.call.absolute_result THEN find_obj_raise(g)
        ELSE LET depth2 == (f.deepest_found + f.depth) \div 2 IN
             IF f.deepest_found = depth2 THEN find_obj_raise(g)
             ELSE [g EXCEPT !.depth = depth2]
    ELSE
        IF f.call.absolute_result THEN Returned(g, got)
        ELSE LET found2 == f.depth
                 depth2 == (Len(segments) + f.depth) \div 2
                 rest == build_path(SubSeq(segments, found2 + 1, Len(segments)),
                                    Pathsep, f.call.trailing_pathsep)
             IN  IF found2 = depth2 THEN Returned(g, ReturnTuple(got.obj, OrNone(rest)))
                 ELSE [g EXCEPT !.deepest_found = found2, !.depth = depth2,
                                !.handler = <<ReturnTuple(got.obj, rest)>>]

InitSteps ==
    /\ InitForest
    /\ InitNoAttributes
    /\ InitNoValues
    /\ writers = <<>>
    /\ frame = NoCall
    /\ ret = NoCall

BeginHasAncestor ==
    /\ frame = NoCall
    /\ \E self \in Nodes, ancestor \in NodesOrNone, inclusive \in BOOLEAN :
        frame' = has_ancestor_begin(self, ancestor, inclusive)
    /\ UNCHANGED <<parent, slug, rows, inst, added, removed>>
    /\ UNCHANGED <<fkv, m2m, writers, ret>>

BeginGetPath ==
    /\ frame = NoCall
    /\ \E self \in Nodes, root \in NodesOrNone :
        frame' = get_path_begin(self, root)
    /\ UNCHANGED <<parent, slug, rows, inst, added, removed>>
    /\ UNCHANGED <<fkv, m2m, writers, ret>>

BeginGetWithPath ==
    /\ frame = NoCall
    /\ \E pieces \in PieceLists, root \in Roots, absolute_result \in BOOLEAN :
        frame' = get_with_path_begin(Join(pieces, Pathsep), root, absolute_result)
    /\ UNCHANGED <<parent, slug, rows, inst, added, removed>>
    /\ UNCHANGED <<fkv, m2m, writers, ret>>

StepHasAncestor ==
    /\ frame.op = "has_ancestor" /\ frame.running
    /\ frame' = has_ancestor_step(frame)
    /\ UNCHANGED <<parent, slug, rows, inst, added, removed>>
    /\ UNCHANGED <<fkv, m2m, writers, ret>>

StepGetPath ==
    /\ frame.op = "get_path" /\ frame.running
    /\ frame' = get_path_step(frame)
    /\ UNCHANGED <<parent, slug, rows, inst, added, removed>>
    /\ UNCHANGED <<fkv, m2m, writers, ret>>

StepFindObj ==
    /\ frame.op = "get_with_path" /\ frame.running
    /\ frame' = find_obj_step(frame)
    /\ UNCHANGED <<parent, slug, rows, inst, added, removed>>
    /\ UNCHANGED <<fkv, m2m, writers, ret>>

\* The caller takes what the call gave.
EndCall ==
    /\ frame # NoCall /\ ~frame.running
    /\ frame' = NoCall
    /\ UNCHANGED <<parent, slug, rows, inst, added, removed>>
    /\ UNCHANGED <<fkv, m2m, writers, ret>>

StepCall == StepHasAncestor \/ StepGetPath \/ StepFindObj

NextSteps ==
    \/ BeginHasAncestor
    \/ BeginGetPath
    \/ BeginGetWithPath
    \/ StepHasAncestor
    \/ StepGetPath
    \/ StepFindObj
    \/ EndCall

\* A call that has begun goes on running: the interpreter takes its next step.
SpecSteps == InitSteps /\ [][NextSteps]_vars /\ WF_vars(StepCall)

InitBranch ==
    /\ InitForest
    /\ InitNoAttributes
    /\ InitNoValues
    /\ InitNoSteps
    /\ ret = NoCall

\* objects.get_branch_pks(root, depth, inclusive), the database listing the
\* rows of a level in any order.
CallGetBranchPks ==
    /\ ret = NoCall
    /\ \E root \in Nodes, depth \in 0..MaxDepth, inclusive \in BOOLEAN,
          order \in Permutations(Nodes) :
        ret' = [op |-> "get_branch_pks", root |-> root, depth |-> depth,
                inclusive |-> inclusive,
                result |-> get_branch_pks(root, depth, inclusive, order)]
    /\ UNCHANGED <<parent, slug, rows, inst, added, removed>>
    /\ UNCHANGED <<fkv, m2m, writers, frame>>

NextBranch == CallGetBranchPks \/ Forget

SpecBranch == InitBranch /\ [][NextBranch]_vars

\* The entities above e: its parent, its parent's parent, ...
RECURSIVE AncestorsOf(_, _)
AncestorsOf(e, chain) ==
    IF e \notin Nodes \/ chain[e] = None THEN {}
    ELSE {chain[e]} \cup AncestorsOf(chain[e], chain)


\* One entity's instance is in memory with nothing staged; the store holds any
\* Attribute rows of that entity (the value may be null) and of its ancestors,
\* at most one per entity and key.
Init ==
    /\ parent = ChainForest
    /\ slug = [n \in Nodes |-> SlugOf(n)]
    /\ inst \in Entities
    /\ \E own \in [Keys -> CellValues \cup {NoValue, NoRow}],
          inherited \in [AncestorsOf(inst, ChainForest) \X Keys
                             -> CellValues \cup {NoRow}] :
          rows = {Attribute(inst, k, own[k]) : k \in {x \in Keys : own[x] # NoRow}}
                 \cup {Attribute(c[1], c[2], inherited[c]) :
                         c \in {x \in DOMAIN inherited : inherited[x] # NoRow}}
    /\ added = NoAdditions
    /\ removed = <<>>
    /\ InitNoValues
    /\ InitNoSteps
    /\ ret = NoCall

\* instance.<field> = value: the field registers the raw value.
StageAddition ==
    /\ \E field \in Fields, value \in Payloads :
        added' = [f \in DOMAIN added \cup {field} |->
                    IF f = field THEN value ELSE added[f]]
    /\ ret' = NoCall
    /\ UNCHANGED <<parent, slug, rows, inst, removed>>
    /\ UNCHANGED <<fkv, m2m, writers, frame>>

\* del instance.<field>: the field registers its key.
StageRemoval ==
    /\ Len(removed) < MaxRemoved
    /\ \E key \in Keys : removed' = Append(removed, key)
    /\ ret' = NoCall
    /\ UNCHANGED <<parent, slug, rows, inst, added>>
    /\ UNCHANGED <<fkv, m2m, writers, frame>>

\* inst.save(), with super().save() going through or raising.
Save ==
    /\ \E persisted \in BOOLEAN :
        LET after == Entity_save(inst, persisted) IN
        /\ rows' = after.rows
        /\ added' = after.added
        /\ removed' = after.removed
        /\ ret' = [op |-> "save", persisted |-> persisted, raised |-> after.raised,
                   added |-> added, removed |-> removed]
    /\ UNCHANGED <<parent, slug, inst>>
    /\ UNCHANGED <<fkv, m2m, writers, frame>>

Next == StageAddition \/ StageRemoval \/ Save

Spec == Init /\ [][Next]_vars

\* ===================================================================== claims

Range(f) == {f[x] : x \in DOMAIN f}
Max(S) == CHOOSE x \in S : \A y \in S : y <= x
Min(S) == CHOOSE x \in S : \A y \in S : x <= y

\* No parent cycle: every chain of parents ends at a null parent.
Acyclic == \A n \in Nodes : Up(n, NumNodes) = None

\* ------------------------------------------------------ get_with_path (C4-C6)

IsGetWithPath == ret.op = "get_with_path"
\* The non-empty segments s1..sn of the call's path.
CallSegments == SelectSeq(ret.pieces, NotBlank)
\* The call's path ends in a separator.
CallTrailing == ret.path # <<>> /\ ret.path[Len(ret.path)] = Pathsep

\* The nodes that end a chain with field values segs[1..d], each the parent of
\* the next, the first having parent root.
RECURSIVE ChainEnds(_, _, _)
ChainEnds(segs, root, d) ==
    IF d = 0 THEN {root}
    ELSE LET above == ChainEnds(segs, root, d - 1)
         IN  {x \in Nodes : parent[x] \in above /\ slug[x] = segs[d]}

\* C4 as stated: with absolute_result=True and segments s1..sn, get_with_path
\* returns a node X exactly when the forest holds a chain s1..sn under root
\* that ends in X, and signals not-found for every other forest.
C4_AbsoluteExactOrNotFound ==
    (IsGetWithPath /\ ret.absolute_result /\ CallSegments # <<>>) =>
        LET ends == ChainEnds(CallSegments, ret.root, Len(CallSegments)) IN
        IF ends # {}
        THEN ret.result.kind = "object" /\ ret.result.obj \in ends
        ELSE ret.result = DoesNotExist

\* C4 amended: with absolute_result=True and segments s1..sn, get_with_path
\* returns X when X is the one node ending a chain s1..sn under root, signals
\* not-found when no node does, and raises MultipleObjectsReturned when
\* several do (field values repeated among siblings); it never returns a node
\* matching only a prefix.
C4_AbsoluteExactUniqueChain ==
    (IsGetWithPath /\ ret.absolute_result /\ CallSegments # <<>>) =>
        LET ends == ChainEnds(CallSegments, ret.root, Len(CallSegments)) IN
        /\ Cardinality(ends) = 1 => ret.result.kind = "object" /\ ret.result.obj \in ends
        /\ ends = {} => ret.result = DoesNotExist
        /\ Cardinality(ends) > 1 => ret.result = MultipleObjectsReturned
        /\ SiblingUnique => Cardinality(ends) <= 1

\* C4 witness: a full chain of three segments was found under a given root.
C4_Witness ==
    /\ IsGetWithPath /\ ret.absolute_result
    /\ Len(CallSegments) = 3
    /\ ret.root # None
    /\ ret.result.kind = "object"

\* C5: with absolute_result=False, segments s1..sn and sibling-unique field
\* values, get_with_path returns (X, rest): X is the node at the largest depth
\* d in 1..n whose chain s1..sd exists under root, rest is s(d+1)..sn joined by
\* the separator plus one trailing separator when the path ended in one, or
\* None when d = n; with no such depth it signals not-found.
C5_DeepestPrefix ==
    (IsGetWithPath /\ ~ret.absolute_result /\ CallSegments # <<>> /\ SiblingUnique) =>
        LET segs == CallSegments
            n == Len(segs)
            depths == {d \in 1..n : ChainEnds(segs, ret.root, d) # {}}
        IN  IF depths = {} THEN ret.result = DoesNotExist
            ELSE LET d == Max(depths)
                     rest == IF d = n THEN NoRest
                             ELSE Join(SubSeq(segs, d + 1, n), Pathsep)
                                  \o (IF CallTrailing THEN <<Pathsep>> ELSE <<>>)
                 IN  /\ ret.result.kind = "tuple"
                     /\ ChainEnds(segs, ret.root, d) = {ret.result.obj}
                     /\ ret.result.rest = rest

\* C5 witness: the spec's example, a top-level node "a" without a child "b"
\* asked for "a/b/a", gives (that node, "b/a").
C5_Witness ==
    /\ IsGetWithPath /\ ~ret.absolute_result /\ SiblingUnique
    /\ ret.path = <<"a", "/", "b", "/", "a">>
    /\ ret.root = None
    /\ ret.result.kind = "tuple"
    /\ slug[ret.result.obj] = <<"a">>
    /\ ret.result.rest = <<"b", "/", "a">>

\* C6: a path without a non-empty segment gives root itself when a root is
\* given and not-found when root is None, for both values of absolute_result:
\* the node with absolute_result=True, (node, None) with absolute_result=False.
C6_EmptyPathGivesRoot ==
    (IsGetWithPath /\ CallSegments = <<>>) =>
        IF ret.root = None THEN ret.result = DoesNotExist
        ELSE IF ret.absolute_result THEN ret.result = ReturnObject(ret.root)
        ELSE ret.result = ReturnTuple(ret.root, NoRest)

\* ----------------------------------------------- has_ancestor, get_path (C7-C9)

IsHasAncestor == ret.op = "has_ancestor"
IsGetPath == ret.op = "get_path"

\* The nodes on the parent chain from start on (start included).
WalkNodes(start) == {Up(start, k) : k \in 0..NumNodes} \ {None}
\* The parent chain from start on reaches a null parent.
WalkEnds(start) == Up(start, NumNodes) = None
\* Where has_ancestor starts its walk.
WalkStart == IF ret.inclusive THEN ret.self ELSE parent[ret.self]

\* C7 as stated: has_ancestor is true exactly when the walk from node
\* (inclusive) or node.parent (exclusive) meets candidate, so it is false when
\* the walk reaches a null parent or meets a node twice without meeting it.
C7_TrueExactlyWhenMet ==
    IsHasAncestor => (ret.result = (ret.ancestor \in WalkNodes(WalkStart)))

\* C7 amended: for a candidate that is a node, has_ancestor is true exactly
\* when the walk meets it (false at a null parent or at a repeated node); for
\* the candidate None it is true exactly when the walk reaches a null parent.
C7_TrueWhenMetOrNoneAtEnd ==
    IsHasAncestor =>
        IF ret.ancestor # None
        THEN ret.result = (ret.ancestor \in WalkNodes(WalkStart))
        ELSE ret.result = WalkEnds(WalkStart)

\* C7 witness: the parent cycle 1 -> 2 -> 1 and a candidate 3 off the cycle.
C7_Witness ==
    /\ IsHasAncestor
    /\ ret.self = 1 /\ ret.ancestor = 3 /\ ~ret.inclusive
    /\ parent[1] = 2 /\ parent[2] = 1
    /\ ret.result = FALSE

\* The walk of get_path from self.parent meets a node twice before root.
CycleBeforeRoot ==
    /\ Up(ret.self, NumNodes + 1) # None
    /\ ret.root = None \/ \A k \in 1..NumNodes : Up(ret.self, k) # ret.root

\* The number of parent steps from self to the first node met a second time.
FirstRepeat ==
    Min({k \in 1..NumNodes : \E j \in 0..(k - 1) : Up(ret.self, j) = Up(ret.self, k)})

\* The field values of the nodes `hops` steps above self down to self, joined.
PathDown(hops) ==
    Join([i \in 1..(hops + 1) |-> slug[Up(ret.self, hops + 1 - i)]], Pathsep)

\* C8 as stated: on a cycle met before root, get_path signals
\* AncestorDoesNotExist for root and still returns the ellipsis-prefixed string.
C8_CycleSignalsAndReturns ==
    (IsGetPath /\ CycleBeforeRoot) =>
        /\ ret.result.raised /\ ret.result.root = ret.root
        /\ ret.result.returned
        /\ ret.result.str = <<Ellipsis, Pathsep>> \o PathDown(FirstRepeat)

\* C8 amended: on a cycle met before root, get_path with a non-null root
\* signals AncestorDoesNotExist(root) and returns nothing; with root None it
\* signals nothing and returns the ellipsis marker, the separator and the
\* collected segments (from the repeated node down to the node).
C8_CycleSignalsOrReturns ==
    (IsGetPath /\ CycleBeforeRoot) =>
        IF ret.root # None
        THEN ret.result = AncestorDoesNotExist(ret.root)
        ELSE ret.result = ReturnString(<<Ellipsis, Pathsep>> \o PathDown(FirstRepeat))

\* C8 witness: a two-node cycle, no root given, the marked string returned.
C8_Witness ==
    /\ IsGetPath /\ CycleBeforeRoot
    /\ ret.root = None
    /\ parent[ret.self] # ret.self /\ parent[parent[ret.self]] = ret.self
    /\ ret.result.returned
    /\ ret.result.str[1] = Ellipsis

\* The parent steps from self to root (None: to the null parent), if any.
StepsToRoot == {k \in 1..NumNodes : Up(ret.self, k) = ret.root}

\* C9: in an acyclic forest get_path(root) signals AncestorDoesNotExist exactly
\* when root is a node the walk from N.parent never meets (root = N included);
\* otherwise it returns the field values of the nodes strictly below root down
\* to N, joined; with root None it returns the chain from the top-level
\* ancestor and never signals.
C9_PathBelowRoot ==
    (IsGetPath /\ Acyclic) =>
        IF StepsToRoot = {}
        THEN ret.root # None /\ ret.result = AncestorDoesNotExist(ret.root)
        ELSE ret.result = ReturnString(PathDown(Min(StepsToRoot) - 1))

\* C9 witness: a root two levels above the node, and a path of two segments.
C9_Witness ==
    /\ IsGetPath /\ Acyclic
    /\ ret.root # None
    /\ parent[ret.self] # None /\ parent[parent[ret.self]] = ret.root
    /\ ret.result.returned
    /\ Len(ret.result.str) = 3

\* ------------------------------------------------ TreeEntity.attributes (C10)

IsGetItem == ret.op = "getitem"

\* The distances from entity up its parent chain at which a node has an
\* Attribute row for key.
HolderDepths(entity, key) ==
    {d \in 0..NumNodes : Up(entity, d) # None
                          /\ AttributeSet(rows, Up(entity, d), key) # {}}

\* The value of the row of the nearest holder, as a lookup gives it.
NearestValue(entity, key) ==
    LET holder == Up(entity, Min(HolderDepths(entity, key)))
        row == CHOOSE r \in AttributeSet(rows, holder, key) : TRUE
    IN  IF row.value = NoValue THEN ReturnNone ELSE ReturnValue(row.value.value)

\* What the lookup of key on a TreeEntity in an acyclic forest resolves to.
Inherited(entity, key) ==
    IF HolderDepths(entity, key) = {} THEN KeyError ELSE NearestValue(entity, key)

\* C10: in an acyclic forest N.attributes[K] gives the value of the row for K
\* of the nearest node on the chain N, N.parent, ... that has one, and signals
\* not-found when none has.
C10_NearestAncestorValue ==
    (IsGetItem /\ Acyclic) => ret.result = Inherited(ret.entity, ret.key)

\* C10 witness: N has no row for K, its parent and its grandparent have one
\* each, and the lookup gives the parent's value.
C10_Witness ==
    /\ IsGetItem /\ Acyclic
    /\ HolderDepths(ret.entity, ret.key) = {1, 2}
    /\ ret.result = ReturnValue(PayloadOf(parent[ret.entity]))
    /\ ret.result # ReturnValue(PayloadOf(parent[parent[ret.entity]]))

\* ------------------------------------------------------- Entity.save (C1-C3)

SaveDone == ret.op = "save" /\ ~ret.raised
\* The fields with key K staged for addition when save was called.
AddedFor(key) == {f \in DOMAIN ret.added : FieldKey(f) = key}
RemovalOnly(key) == key \in Range(ret.removed) /\ AddedFor(key) = {}

\* C1 as stated: after a successful save, E.attributes[K] is the applied value
\* for every K staged for addition, and signals key-not-found for every K
\* staged for removal only, for plain and tree entities alike.
C1_SavedThenLookup ==
    SaveDone =>
        \A key \in Keys :
            /\ \A f \in AddedFor(key) : Lookup(inst, key) = ReturnValue(ret.added[f])
            /\ RemovalOnly(key) => Lookup(inst, key) = KeyError

\* C1 amended: after a successful save of an entity whose parent chain is
\* acyclic, E.attributes[K] is the applied value for every K staged for
\* addition; for every K staged for removal only, E has no Attribute row for K
\* and the lookup signals key-not-found unless E is a TreeEntity with an
\* ancestor holding K, in which case it gives the nearest such ancestor's value.
C1_SavedThenLookupOrInherited ==
    (SaveDone /\ Acyclic) =>
        \A key \in Keys :
            /\ \A f \in AddedFor(key) : Lookup(inst, key) = ReturnValue(ret.added[f])
            /\ RemovalOnly(key) =>
                  /\ AttributeSet(rows, inst, key) = {}
                  /\ Lookup(inst, key) =
                        IF inst \in Nodes THEN Inherited(inst, key) ELSE KeyError

\* C1 witness: a TreeEntity with a parent holding "color" saved a removal of
\* "color" and an addition for "size".
C1_Witness ==
    /\ SaveDone
    /\ inst \in Nodes /\ parent[inst] # None
    /\ RemovalOnly("color") /\ AddedFor("size") # {}
    /\ AttributeSet(rows, parent[inst], "color") # {}
    /\ Lookup(inst, "size") = ReturnValue(ret.added["size_field"])

\* C2: after a successful save, every key that was in the pending-removal
\* registry and staged for addition has exactly one Attribute row of the
\* entity, carrying the staged value (removals are committed first).
C2_RemovedAndAddedEndsAdded ==
    SaveDone =>
        \A key \in Range(ret.removed) :
            \A f \in AddedFor(key) :
                AttributeSet(rows, inst, key)
                    = {Attribute(inst, key, JSONValue(ret.added[f]))}

\* C2 witness: "color" was in both registries and the save went through.
C2_Witness ==
    /\ SaveDone
    /\ "color" \in Range(ret.removed)
    /\ AddedFor("color") # {}

\* The store after the staged changes of one entity are applied to it.
Applied(store, entity, additions, removals) ==
    {r \in store : ~(r.entity = entity
                      /\ (r.key \in Range(removals)
                          \/ \E f \in DOMAIN additions : FieldKey(f) = r.key))}
    \cup {Attribute(entity, FieldKey(f), JSONValue(additions[f])) : f \in DOMAIN additions}

\* C3: a save whose persistence step fails leaves the two registries and the
\* stored rows as they were, and a successful save right after it applies
\* exactly the changes that were staged when the first one failed.
C3_FailedSaveKeepsStaged ==
    [][/\ (ret'.op = "save" /\ ~ret'.persisted) =>
              (rows' = rows /\ added' = added /\ removed' = removed)
       /\ (ret.op = "save" /\ ~ret.persisted /\ ret'.op = "save" /\ ~ret'.raised) =>
              /\ ret'.added = ret.added /\ ret'.removed = ret.removed
              /\ rows' = Applied(rows, inst, ret.added, ret.removed)
              /\ added' = NoAdditions /\ removed' = <<>>]_vars

\* C3 witness: a save failed with an addition and a removal staged, and both
\* are still staged.
C3_Witness ==
    /\ ret.op = "save" /\ ~ret.persisted
    /\ ret.added # NoAdditions /\ ret.removed # <<>>
    /\ added = ret.added /\ removed = ret.removed

\* ------------------------------------------------ QuerySetMapper lookup (C11)

IsMapperGetItem == ret.op = "mapper_getitem"

\* The Attribute rows for the looked-up key in the mapper's own queryset.
OwnRows == AttributeSet(rows, ret.entity, ret.key)

\* What a row's value unwraps to.
Unwrapped(row) ==
    IF row.value = NoValue THEN ReturnNone ELSE ReturnValue(row.value.value)

\* C11: a lookup of key K in a QuerySetMapper gives, when the own queryset has
\* a row for K, that row's unwrapped payload (null for a null value) and goes
\* to no other queryset; when it has none, it gives what the passthrough's
\* lookup of K gives if a passthrough is set, and key-not-found otherwise.
C11_OwnRowElsePassthrough ==
    IsMapperGetItem =>
        LET mapper == attributes(ret.entity) IN
        IF OwnRows # {}
        THEN /\ \A row \in OwnRows : ret.result = Unwrapped(row)
             /\ ret.queried = <<ret.entity>>
        ELSE IF mapper.passthrough # <<>>
        THEN /\ ret.result = Lookup(parent[ret.entity], ret.key)
             /\ Len(ret.queried) >= 2
             /\ ret.queried[2] = parent[ret.entity]
        ELSE ret.result = KeyError

\* C11 witness: the own row for K has a null value and the passthrough has a
\* row for K with a payload; the lookup gives null and asks the own queryset
\* only.
C11_Witness ==
    /\ IsMapperGetItem
    /\ \E row \in OwnRows : row.value = NoValue
    /\ attributes(ret.entity).passthrough # <<>>
    /\ Lookup(parent[ret.entity], ret.key) \notin {KeyError, ReturnNone}
    /\ ret.result = ReturnNone
    /\ ret.queried = <<ret.entity>>

\* ------------------------------------- ManyToManyValue.set_value (C12, C17)

IsSetValue == ret.op = "set_value"

\* The object_ids that have a child row of V.
ChildIds == {i \in TargetIds : m2m.values[i] > 0}

\* The ids of the objects V.value gives.
ValueIds == {o.pk : o \in get_value(m2m).objects}

\* C12: for a ManyToManyValue with a content type, after set_value(S1)
\* followed by set_value(S2) the object_ids of V's child rows, and the ids of
\* V.value, are exactly S2, whether S1 and S2 are disjoint, overlap, are equal
\* or are empty.
C12_SecondSetValueWins ==
    (IsSetValue /\ ret.previous # <<>> /\ m2m.content_type # None) =>
        /\ ChildIds = IdsOf(ret.value)
        /\ ValueIds = IdsOf(ret.value)

\* C12 witness: S1 and S2 overlap, S1 has an id S2 lacks, that id had a child
\* row before the second call, and V is left with child rows for exactly S2.
C12_Witness ==
    /\ IsSetValue /\ ret.previous # <<>> /\ m2m.content_type # None
    /\ ret.previous[1] \cap IdsOf(ret.value) # {}
    /\ \E i \in ret.previous[1] \ IdsOf(ret.value) : ret.before.values[i] > 0
    /\ ChildIds = IdsOf(ret.value)
    /\ ValueIds = IdsOf(ret.value)

\* C17: after any sequence of set_value calls, with iterables that may repeat
\* an id, V has no two child rows with the same object_id.
C17_NoTwoChildRowsPerId ==
    \A i \in TargetIds : m2m.values[i] <= 1

\* ------------------------------------------ ForeignKeyValue.apply_data (C14)

IsApplyData == ret.op = "apply_data"

\* The input has a 'value' that is not null.
HasValue == "value" \in DOMAIN ret.cleaned_data /\ ret.cleaned_data.value # NoObject
HasContentType == "content_type" \in DOMAIN ret.cleaned_data

\* C14 as stated: with a non-null 'value' the reference is set to that object;
\* otherwise the object_id is cleared, and the content_type becomes the
\* input's 'content_type' when the key is present and stays as it was when the
\* key is absent.
C14_TypeRetainedWhenAbsent ==
    IsApplyData =>
        IF HasValue
        THEN /\ fkv.content_type = ret.cleaned_data.value.content_type
             /\ fkv.object_id = ret.cleaned_data.value.pk
        ELSE /\ fkv.object_id = None
             /\ fkv.content_type = IF HasContentType
                                    THEN ret.cleaned_data.content_type
                                    ELSE ret.before.content_type

\* C14: with a non-null 'value' the reference (content_type and object_id) is
\* set to that object, whatever 'content_type' the input carries; otherwise
\* the object_id is cleared, and the content_type becomes the input's
\* 'content_type' when the key is present and null when the key is absent.
C14_TypeClearedWhenAbsent ==
    IsApplyData =>
        IF HasValue
        THEN /\ fkv.content_type = ret.cleaned_data.value.content_type
             /\ fkv.object_id = ret.cleaned_data.value.pk
        ELSE /\ fkv.object_id = None
             /\ fkv.content_type = IF HasContentType
                                    THEN ret.cleaned_data.content_type
                                    ELSE None

\* C14 witness: a ForeignKeyValue that referred to an object is given an
\* input with neither a non-null 'value' nor a 'content_type', and ends with
\* both its content_type and its object_id null.
C14_Witness ==
    /\ IsApplyData /\ ~HasValue /\ ~HasContentType
    /\ ret.before.content_type # None /\ ret.before.object_id # None
    /\ fkv = ForeignKeyValue(None, None)

\* ------------------------------------------------------ get_branch_pks (C15)

IsGetBranchPks == ret.op = "get_branch_pks"

\* The numbers of child steps, up to `most`, by which node n is reached from
\* the root of the call.
StepsFromRoot(n, most) == {k \in 1..most : Up(n, k) = ret.root}

\* The nodes reached from the root by 1 to depth child steps.
Branch == {n \in Nodes : StepsFromRoot(n, ret.depth) # {}}

\* The level of a node of the branch: the least number of child steps.
Level(n) == Min(StepsFromRoot(n, ret.depth))

\* The result without the root's key put in front of it.
BelowRoot == IF ret.inclusive THEN Tail(ret.result) ELSE ret.result

NoDuplicates(list) ==
    \A i, j \in 1..Len(list) : list[i] = list[j] => i = j

LevelOrder(list) ==
    \A i, j \in 1..Len(list) : i < j => Level(list[i]) <= Level(list[j])

\* C15 as stated: the result has no duplicates; it starts with the root's key
\* exactly when inclusive; after that come exactly the nodes reached from the
\* root by 1 to depth child steps, level by level; and the root's key is not
\* in it when inclusive is false.
C15_BranchWithoutRoot ==
    IsGetBranchPks =>
        /\ NoDuplicates(ret.result)
        /\ ret.inclusive => (ret.result # <<>> /\ ret.result[1] = ret.root)
        /\ Range(BelowRoot) = Branch
        /\ LevelOrder(BelowRoot)
        /\ ~ret.inclusive => ret.root \notin Range(ret.result)

\* C15: the result has no duplicates; it starts with the root's key when
\* inclusive; after that come, level by level, exactly the nodes reached from
\* the root by 1 to depth child steps, the root itself left out when
\* inclusive.  So with inclusive false the root's key is in the result exactly
\* when a parent cycle of at most depth nodes runs through the root.
C15_BranchLevelByLevel ==
    IsGetBranchPks =>
        /\ NoDuplicates(ret.result)
        /\ ret.inclusive => (ret.result # <<>> /\ ret.result[1] = ret.root)
        /\ Range(BelowRoot) = IF ret.inclusive THEN Branch \ {ret.root} ELSE Branch
        /\ LevelOrder(BelowRoot)
        /\ ~ret.inclusive => (ret.root \in Range(ret.result) <=> ret.root \in Branch)

\* C15 witness: the root has a child and a grandchild, the call is inclusive
\* with depth 1, and the result is the root followed by the child.
C15_Witness ==
    /\ IsGetBranchPks /\ Acyclic
    /\ ret.inclusive /\ ret.depth = 1
    /\ \E n \in Nodes : Up(n, 2) = ret.root
    /\ Len(ret.result) = 2
    /\ ret.result[1] = ret.root
    /\ parent[ret.result[2]] = ret.root

\* ------------------------------------------------- concurrent saves (C13)

\* The writers that found no row for key and have tried to create one.
Creators(key) ==
    {w \in Writers : /\ FieldKey(writers[w].field) = key
                     /\ ~writers[w].found
                     /\ writers[w].pc \in {"clear", "done", "IntegrityError"}}

\* Those of them the store turned down.
Rejected(key) == {w \in Creators(key) : writers[w].pc = "IntegrityError"}

\* C13: whatever the interleaving of the saves, the store never holds two
\* Attribute rows with the same (key, entity); of the writers that found no
\* row for a key and tried to create one, one created it and every other got
\* an integrity error.
C13_OneRowPerKey ==
    /\ KeyUnique(rows)
    /\ \A key \in Keys :
          Creators(key) # {} =>
              /\ Cardinality(Creators(key) \ Rejected(key)) = 1
              /\ Cardinality(AttributeSet(rows, inst, key)) = 1

\* C13 witness: two writers found no row for the same key; one has created
\* the row and finished, the other was rejected, and the store holds one row.
C13_Witness ==
    \E key \in Keys :
        /\ Cardinality(Creators(key)) >= 2
        /\ \E w \in Creators(key) : writers[w].pc = "done"
        /\ Rejected(key) # {}
        /\ Cardinality(AttributeSet(rows, inst, key)) = 1

\* ------------------------------------------------------- termination (C16)

Running == frame # NoCall /\ frame.running
Ended == frame # NoCall /\ ~frame.running

\* The ancestor walks note every node once at most, and find_obj is never
\* called twice with the same (depth, deepest_found).
NothingTwice ==
    Running =>
        IF frame.op = "get_with_path" THEN NoDuplicates(frame.probed)
        ELSE NoDuplicates(frame.parents)

\* The step-by-step call ends with what the call gives as a whole.
SameAsCall ==
    Ended =>
        frame.result =
            IF frame.op = "has_ancestor"
            THEN has_ancestor(frame.call.self, frame.call.ancestor, frame.call.inclusive)
            ELSE IF frame.op = "get_path"
            THEN get_path(frame.call.self, frame.call.root, Pathsep)
            ELSE get_with_path(build_path(frame.call.segments, Pathsep,
                                          frame.call.trailing_pathsep),
                               frame.call.root, frame.call.absolute_result, Pathsep)

\* The call gave a result, or a not-found or ancestor-missing error.
ResultOrNotFound ==
    \/ frame.op \in {"has_ancestor", "get_path"}
    \/ frame.result.kind \in {"object", "tuple", "DoesNotExist"}

\* The call of get_with_path met several nodes for one prefix.
SeveralFound ==
    /\ frame.op = "get_with_path"
    /\ frame.result = MultipleObjectsReturned

\* C16 as stated: on every parent graph, cycles included, every call of
\* has_ancestor, get_path and get_with_path ends, with a result or a not-found
\* or ancestor-missing error; the walks note no node twice and the probe no
\* (depth, deepest_found) twice.
C16_EndsWithResultOrNotFound ==
    /\ Running ~> Ended
    /\ [](NothingTwice /\ SameAsCall)
    /\ [](Ended => ResultOrNotFound)

\* C16: on every parent graph, cycles included, every call of has_ancestor,
\* get_path and get_with_path ends: with a result, with a not-found or
\* ancestor-missing error, or, for get_with_path where several nodes match a
\* probed prefix, with the multiple-objects error; the walks note no node
\* twice and the probe no (depth, deepest_found) twice.
C16_EveryCallEnds ==
    /\ Running ~> Ended
    /\ [](NothingTwice /\ SameAsCall)
    /\ [](Ended => (ResultOrNotFound \/ SeveralFound))

\* C16 witness: on a parent cycle through all the nodes has_ancestor has
\* walked the whole cycle without meeting the candidate and has ended with
\* False.
C16_Witness ==
    /\ Ended /\ frame.op = "has_ancestor"
    /\ \A n \in Nodes : Up(n, NumNodes) = n
    /\ \A n, m \in Nodes : \E k \in 0..NumNodes : Up(n, k) = m
    /\ frame.call.ancestor = None
    /\ frame.result = FALSE

====
